---- MODULE Spec2Model ----
(***************************************************************************)
(* Model of the desktop-diligence pipeline of src/app.py:                  *)
(*   find_ticker -> get_yfinance_data -> save_to_excel, driven per company *)
(*   by run_public_diligence inside the "Run Public Diligence" handler.    *)
(*                                                                         *)
(* Python values are modelled as follows.                                  *)
(*   str            a sequence of text pieces (<<>> is the empty string)   *)
(*   None           the piece sequence <<"<None>">>                        *)
(*   dict           a function whose DOMAIN is the key set; the provider's *)
(*                  info dict, whose order matters, is a sequence of       *)
(*                  <<key, value>> pairs                                   *)
(*   table cell     a record [t, n, d, s]: a number n/d, a string s or NaN *)
(*   DataFrame      a record [index, columns, values] (values by row)      *)
(***************************************************************************)
EXTENDS Integers, Sequences, FiniteSets, TLC

VARIABLES
    company_input,  \* text of the st.text_input widget (sequence of characters)
    companies,      \* the list built at line 124
    idx,            \* position of the for-loop of line 127 (1-based)
    pc,             \* where the script run is: idle / loop / done / crashed
    ui,             \* the st.* elements emitted by the current script run
    calls,          \* history of the stage calls made by the current script run
    response,       \* find_ticker alone: the outcome of the search request
    ticker,         \* find_ticker alone: what find_ticker did with it
    data,           \* save_to_excel alone: the fetched record handed to it
    fault,          \* save_to_excel alone: the write that raises, if any
    report          \* save_to_excel alone: what save_to_excel did

vars == <<company_input, companies, idx, pc, ui, calls,
          response, ticker, data, fault, report>>

-----------------------------------------------------------------------------
(* Bounds of the model.                                                    *)

MaxText == 4      \* length of the text typed into the input box
MaxQuotes == 3    \* entries in the "quotes" array of a search response
MaxRows == 2      \* line items of a statement table
MaxCols == 2      \* period columns of a statement table

-----------------------------------------------------------------------------
(* Python values.                                                          *)

None == <<"<None>">>

\* Python truthiness of a str-or-None (line 104) .
Truthy(x) == x # None /\ x # <<>>

\* dict.get(key) on a dict modelled as a function.
Get(d, key) == IF key \in DOMAIN d THEN d[key] ELSE None

Num(n) == [t |-> "num", n |-> n, d |-> 1, s |-> <<>>]
Str(s) == [t |-> "str", n |-> 0, d |-> 1, s |-> s]
NaN == [t |-> "nan", n |-> 0, d |-> 1, s |-> <<>>]

\* An st.* call: which function, and the company or ticker its text names.
Msg(fn, who) == [fn |-> fn, who |-> who]

-----------------------------------------------------------------------------
(* Step 1: find_ticker.                                                    *)
(* A search outcome is [net, status, body]: net = "raise" when             *)
(* requests.get raises; body.parseable is FALSE when response.json()       *)
(* raises, otherwise body.json is the decoded JSON object (a function over *)
(* its keys).                                                              *)

EmptyDict == [k \in {} |-> None]

Unparseable == [parseable |-> FALSE, json |-> EmptyDict]

Parsed(json) == [parseable |-> TRUE, json |-> json]

\* The for-loop of lines 20-22 from position i on: the symbol of the first
\* entry whose quoteType is "EQUITY" (None when it has no symbol key), or
\* "fell through" when the loop ends without returning.
FellThrough == <<"<fell through>">>

RECURSIVE ScanQuotes(_, _)
ScanQuotes(quotes, i) ==
    IF i > Len(quotes) THEN FellThrough
    ELSE IF Get(quotes[i], "quoteType") = <<"EQUITY">>
         THEN Get(quotes[i], "symbol")
         ELSE ScanQuotes(quotes, i + 1)

\* Mutant: keeps scanning past an EQUITY entry that carries no symbol.
RECURSIVE ScanQuotesSkipSymbolless(_, _)
ScanQuotesSkipSymbolless(quotes, i) ==
    IF i > Len(quotes) THEN FellThrough
    ELSE IF Get(quotes[i], "quoteType") = <<"EQUITY">> /\ "symbol" \in DOMAIN quotes[i]
         THEN Get(quotes[i], "symbol")
         ELSE ScanQuotesSkipSymbolless(quotes, i + 1)

FirstEquitySkipSymbolless(quotes) == ScanQuotesSkipSymbolless(quotes, 1)

FirstEquity(quotes) == ScanQuotes(quotes, 1)

\* find_ticker(company_name) against the search outcome resp.  The result
\* is [ret, raised, st]: the returned value, whether an exception left the
\* function, and the st.* calls it made.  The status of the response is
\* never read (there is no raise_for_status and no status_code test).
find_ticker(company_name, resp) ==
    IF resp.net = "raise" \/ ~resp.body.parseable
    THEN [ret |-> None, raised |-> FALSE, st |-> <<Msg("error", company_name)>>]
    ELSE LET json == resp.body.json
             quotes == IF "quotes" \in DOMAIN json THEN json["quotes"] ELSE <<>>
             hit == FirstEquity(quotes)
         IN  [ret |-> IF hit = FellThrough THEN None ELSE hit,
              raised |-> FALSE,
              st |-> <<>>]

\* Search outcomes.
Symbols == {<<"AAPL">>, <<"MSFT">>}
QuoteTypes == {<<"EQUITY">>, <<"ETF">>}

Entries ==
    { [k \in {"quoteType"} |-> qt] : qt \in QuoteTypes }
    \cup { [k \in {"quoteType", "symbol"} |-> IF k = "quoteType" THEN qt[1] ELSE qt[2]] :
             qt \in QuoteTypes \X Symbols }
    \cup { [k \in {"symbol"} |-> s] : s \in Symbols }

\* Sequences of entries of length at most n.
RECURSIVE QuoteLists(_)
QuoteLists(n) ==
    IF n = 0 THEN { <<>> }
    ELSE QuoteLists(n - 1)
         \cup { Append(q, e) : q \in { p \in QuoteLists(n - 1) : Len(p) = n - 1 }, e \in Entries }

Bodies(n) ==
    { Unparseable, Parsed(EmptyDict) }
    \cup { Parsed([k \in {"quotes"} |-> q]) : q \in QuoteLists(n) }

Responses(n) ==
    { [net |-> "raise", status |-> 0, body |-> Unparseable] }
    \cup [net : {"ok"}, status : {200, 503}, body : Bodies(n)]

Unset == <<"<unset>">>

\* The value of ticker before find_ticker has run.
NotRun == [ret |-> Unset, raised |-> FALSE, st |-> <<>>]

\* What save_to_excel hands back when it does not return, and the value of
\* report before it has run.
NoReport == [workbook |-> <<>>, filename |-> Unset]

ReportNotRun == [ret |-> NoReport, raised |-> FALSE, st |-> <<>>]

InitTicker ==
    /\ response \in Responses(MaxQuotes)
    /\ ticker = NotRun
    /\ company_input = <<>> /\ companies = <<>> /\ idx = 1 /\ pc = "idle"
    /\ ui = <<>> /\ calls = <<>>
    /\ data = EmptyDict /\ fault = "none" /\ report = ReportNotRun

FindTicker ==
    /\ ticker = NotRun
    /\ LET r == find_ticker(<<"A">>, response)
       IN  /\ ticker' = r
           /\ ui' = ui \o r.st
    /\ UNCHANGED <<company_input, companies, idx, pc, calls, response, data, fault, report>>

NextTicker == FindTicker

SpecTicker == InitTicker /\ [][NextTicker]_vars

-----------------------------------------------------------------------------
(* Step 2: get_yfinance_data.                                              *)
(* The provider's behaviour for one ticker is [raiseAt, info, tables]:     *)
(* the evaluation step of lines 31-40 that raises (0 when none does), the  *)
(* info dict as <<key, value>> pairs in insertion order, and the six       *)
(* statement tables by the provider's attribute name.                      *)

StatementKeys == <<"financials", "balance_sheet", "cashflow",
                   "quarterly_financials", "quarterly_balance_sheet", "quarterly_cashflow">>

\* The steps of lines 31-40 in evaluation order: the constructor, then the
\* eight values of the dict literal.
FetchSteps == <<"Ticker", "info">> \o StatementKeys \o <<"currency">>

\* dict.get(key, default) on the info dict.
RECURSIVE InfoGetFrom(_, _, _, _)
InfoGetFrom(info, key, default, i) ==
    IF i > Len(info) THEN default
    ELSE IF info[i][1] = key THEN info[i][2]
         ELSE InfoGetFrom(info, key, default, i + 1)

InfoGet(info, key, default) == InfoGetFrom(info, key, default, 1)

\* The value the dict literal holds under a key.
FetchValue(prov, key) ==
    IF key = "info" THEN prov.info
    ELSE IF key = "currency" THEN InfoGet(prov.info, "financialCurrency", Str(<<"Unknown">>))
         ELSE prov.tables[key]

\* Evaluate the steps from i on; acc holds the values obtained so far.
RECURSIVE Collect(_, _, _)
Collect(prov, i, acc) ==
    IF i > Len(FetchSteps) THEN [ok |-> TRUE, rec |-> acc]
    ELSE IF prov.raiseAt = i THEN [ok |-> FALSE, rec |-> acc]
         ELSE IF FetchSteps[i] = "Ticker" THEN Collect(prov, i + 1, acc)
              ELSE Collect(prov, i + 1,
                           [k \in DOMAIN acc \cup {FetchSteps[i]} |->
                               IF k = FetchSteps[i] THEN FetchValue(prov, k) ELSE acc[k]])

\* Mutant: the except branch returns what was collected before the failure.
get_yfinance_data_partial(ticker_, prov) ==
    LET c == Collect(prov, 1, EmptyDict)
    IN  IF c.ok THEN [ret |-> c.rec, st |-> <<>>]
        ELSE [ret |-> c.rec, st |-> <<Msg("error", ticker_)>>]

\* get_yfinance_data(ticker) against the provider behaviour prov: [ret, st].
get_yfinance_data(ticker_, prov) ==
    LET c == Collect(prov, 1, EmptyDict)
    IN  IF c.ok THEN [ret |-> c.rec, st |-> <<>>]
        ELSE [ret |-> EmptyDict, st |-> <<Msg("error", ticker_)>>]

-----------------------------------------------------------------------------
(* Step 3: save_to_excel.                                                  *)

Million == 1000000

Abs(n) == IF n < 0 THEN -n ELSE n

RECURSIVE GCD(_, _)
GCD(a, b) == IF b = 0 THEN a ELSE GCD(b, a % b)

\* n / d as an exact number cell in lowest terms (d > 0).
Quotient(n, d) ==
    LET g == GCD(Abs(n), d)
    IN  [t |-> "num", n |-> n \div g, d |-> d \div g, s |-> <<>>]

DigitValue(c) ==
    CASE c = "0" -> 0 [] c = "1" -> 1 [] c = "2" -> 2 [] c = "3" -> 3 [] c = "4" -> 4
      [] c = "5" -> 5 [] c = "6" -> 6 [] c = "7" -> 7 [] c = "8" -> 8 [] c = "9" -> 9

IsDigit(c) == c \in {"0", "1", "2", "3", "4", "5", "6", "7", "8", "9"}

RECURSIVE DigitsValue(_, _, _)
DigitsValue(s, i, acc) ==
    IF i > Len(s) THEN acc ELSE DigitsValue(s, i + 1, 10 * acc + DigitValue(s[i]))

\* pd.to_numeric(..., errors='coerce') on one cell: numbers stay, a string
\* that spells a decimal integer (optionally signed) is parsed, every other
\* string and every missing value becomes NaN.
to_numeric(cell) ==
    IF cell.t = "num" THEN cell
    ELSE IF cell.t = "nan" THEN NaN
    ELSE LET s == cell.s
             neg == Len(s) > 0 /\ s[1] = "-"
             digits == IF neg THEN Tail(s) ELSE s
         IN  IF Len(digits) > 0 /\ \A i \in 1..Len(digits) : IsDigit(digits[i])
             THEN Num((IF neg THEN -1 ELSE 1) * DigitsValue(digits, 1, 0))
             ELSE NaN

\* Mutant: a cell that does not coerce becomes zero instead of NaN.
ToMillionsZeroFill(cell) ==
    LET v == to_numeric(cell)
    IN  IF v.t = "num" THEN Quotient(v.n, v.d * Million) ELSE Num(0)

\* One cell of line 57: to_numeric(...) / 1e6 (NaN / 1e6 is NaN).
ToMillions(cell) ==
    LET v == to_numeric(cell)
    IN  IF v.t = "num" THEN Quotient(v.n, v.d * Million) ELSE NaN

\* convert_to_millions(df): every column is replaced by its coerced, scaled
\* values; index and column labels are kept.
convert_to_millions(df) ==
    [df EXCEPT !.values =
        [r \in 1..Len(df.index) |-> [c \in 1..Len(df.columns) |-> ToMillions(df.values[r][c])]]]

\* DataFrame.empty: some axis has length zero.
IsEmpty(df) == Len(df.index) = 0 \/ Len(df.columns) = 0

\* DataFrame.reset_index: the row labels become a leading column "index".
reset_index(df) ==
    [index |-> [r \in 1..Len(df.index) |-> Num(r - 1)],
     columns |-> <<Str(<<"index">>)>> \o df.columns,
     values |-> [r \in 1..Len(df.index) |-> <<df.index[r]>> \o df.values[r]]]

\* pd.concat([a, b], ignore_index=True) of two frames with the same columns.
concat(a, b) ==
    [index |-> [r \in 1..(Len(a.index) + Len(b.index)) |-> Num(r - 1)],
     columns |-> a.columns,
     values |-> a.values \o b.values]

\* DataFrame.to_excel(writer, sheet_name, index=False): a header row of the
\* column labels, then the rows; a NaN is written as the empty string.
to_excel(df, sheet_name) ==
    [name |-> sheet_name,
     header |-> df.columns,
     rows |-> [r \in 1..Len(df.values) |->
                  [c \in 1..Len(df.columns) |->
                      IF df.values[r][c].t = "nan" THEN Str(<<>>) ELSE df.values[r][c]]]]

RECURSIVE Digits(_)
Digits(n) ==
    LET last == <<CHOOSE c \in {"0", "1", "2", "3", "4", "5", "6", "7", "8", "9"} :
                      DigitValue(c) = n % 10>>
    IN  IF n < 10 THEN last ELSE Digits(n \div 10) \o last

\* str(value) inside an f-string.
Format(cell) ==
    IF cell.t = "str" THEN cell.s
    ELSE IF cell.t = "nan" THEN <<"nan">>
    ELSE IF cell.n < 0 THEN <<"-">> \o Digits(-cell.n) ELSE Digits(cell.n)

\* The header_note frame of lines 74-77: one row, the note and then blanks.
header_note(currency, df_millions) ==
    [index |-> <<Num(0)>>,
     columns |-> df_millions.columns,
     values |-> << <<Str(<<"Currency: ">> \o Format(currency) \o <<" (in millions)">>)>>
                   \o [i \in 1..(Len(df_millions.columns) - 1) |-> Str(<<>>)] >>]

\* Mutant: the note row is appended after the data instead of prepended.
write_financial_sheet_note_last(sheet_name, df, currency) ==
    LET df_millions == reset_index(convert_to_millions(df))
        final_df == concat(df_millions, header_note(currency, df_millions))
    IN  to_excel(final_df, sheet_name)

\* write_financial_sheet(sheet_name, df) with the enclosing currency: the
\* sheet it writes.
write_financial_sheet(sheet_name, df, currency) ==
    LET df_millions == reset_index(convert_to_millions(df))
        final_df == concat(header_note(currency, df_millions), df_millions)
    IN  to_excel(final_df, sheet_name)

SheetNames == <<"Annual_Income", "Annual_Balance", "Annual_Cashflow",
                "Quarterly_Income", "Quarterly_Balance", "Quarterly_Cashflow">>

\* The Overview frame of lines 63-66 and its sheet.
overview_sheet(info) ==
    to_excel([index |-> [r \in 1..Len(info) |-> Num(r - 1)],
              columns |-> <<Str(<<"Attribute">>), Str(<<"Value">>)>>,
              values |-> [r \in 1..Len(info) |-> <<Str(<<info[r][1]>>), info[r][2]>>]],
             "Overview")

\* The info value is a dict in every record the fetcher returns; the
\* isinstance test of line 62 looks at nothing else.
IsDict(info) == DOMAIN info = 1..Len(info)

\* Line 62.
WritesOverview(d) == "info" \in DOMAIN d /\ IsDict(d["info"])

\* Mutant: the test is chained to the next table's (an elif-like nesting).
WritesStatementChained(d, k) ==
    /\ StatementKeys[k] \in DOMAIN d /\ ~IsEmpty(d[StatementKeys[k]])
    /\ (k < Len(StatementKeys) =>
           (StatementKeys[k + 1] \in DOMAIN d /\ ~IsEmpty(d[StatementKeys[k + 1]])))

\* Lines 82-95: the test guarding the k-th statement sheet.
WritesStatement(d, k) ==
    StatementKeys[k] \in DOMAIN d /\ ~IsEmpty(d[StatementKeys[k]])

\* The statement sheets from the k-th on, in writing order.
RECURSIVE StatementSheets(_, _, _)
StatementSheets(d, currency, k) ==
    IF k > Len(StatementKeys) THEN <<>>
    ELSE (IF WritesStatement(d, k)
          THEN <<write_financial_sheet(SheetNames[k], d[StatementKeys[k]], currency)>>
          ELSE <<>>)
         \o StatementSheets(d, currency, k + 1)

Today == <<"20261101">>

\* save_to_excel(company_name, ticker, data) when the write named by flt
\* raises ("none": no write raises; "close": leaving the with-block does).
\* The result is [ret, raised, st]; ret is [workbook, filename], NoReport
\* when an exception left the function.
save_to_excel(company_name, ticker_, d, flt) ==
    LET filename == ticker_ \o <<"_public_diligence_">> \o Today \o <<".xlsx">>
        currency == IF "currency" \in DOMAIN d THEN d["currency"] ELSE Str(<<"Unknown">>)
        sheets == (IF WritesOverview(d) THEN <<overview_sheet(d["info"])>> ELSE <<>>)
                  \o StatementSheets(d, currency, 1)
        raises == flt = "close" \/ \E i \in 1..Len(sheets) : sheets[i].name = flt
    IN  IF raises
        THEN [ret |-> NoReport, raised |-> TRUE, st |-> <<>>]
        ELSE [ret |-> [workbook |-> sheets, filename |-> filename], raised |-> FALSE, st |-> <<>>]

-----------------------------------------------------------------------------
(* save_to_excel alone, over fetched records.                              *)

DigitStr == <<"1", "2", "3", "4", "5", "6", "7", "8", "9">>

\* Raw cell values a provider table can hold.
CellPool == <<Num(2500000), Str(<<"N/A">>), NaN, Str(<<"-", "4", "2">>), Num(-3)>>

\* The table with R line items and C periods whose cells run through
\* CellPool starting at offset off.
Table(R, C, off) ==
    [index |-> [r \in 1..R |-> Str(<<"Item", DigitStr[r]>>)],
     columns |-> [c \in 1..C |-> Str(<<"FY", DigitStr[c]>>)],
     values |-> [r \in 1..R |->
                   [c \in 1..C |-> CellPool[(((r - 1) * C + (c - 1) + off) % Len(CellPool)) + 1]]]]

Tables == { Table(R, C, off) : R \in 0..MaxRows, C \in 0..MaxCols, off \in 0..(Len(CellPool) - 1) }

EmptyTable == Table(0, 0, 0)

SampleTable == Table(1, 1, 0)

Infos ==
    { <<>>,
      << <<"symbol", Str(<<"AAPL">>)>>, <<"longName", Str(<<"Apple Inc.">>)>> >>,
      << <<"longName", Str(<<"Apple Inc.">>)>>, <<"financialCurrency", Str(<<"USD">>)>>,
         <<"marketCap", Num(5)>> >> }

\* A provider that answers every step, with table t under the focus-th
\* statement key and sample or empty tables under the others.
Provider(info, focus, t, filled) ==
    [raiseAt |-> 0,
     info |-> info,
     tables |-> [k \in { StatementKeys[i] : i \in 1..Len(StatementKeys) } |->
                   IF k = StatementKeys[focus] THEN t
                   ELSE IF \E i \in filled : StatementKeys[i] = k THEN SampleTable
                        ELSE EmptyTable]]

Faults == {"none", "Annual_Income", "close"}

InitExcel ==
    /\ \E info \in Infos, focus \in 1..Len(StatementKeys), t \in Tables :
         \E filled \in SUBSET (1..Len(StatementKeys) \ {focus}) :
            data = get_yfinance_data(<<"AAPL">>, Provider(info, focus, t, filled)).ret
    /\ fault \in Faults
    /\ report = ReportNotRun
    /\ company_input = <<>> /\ companies = <<>> /\ idx = 1 /\ pc = "idle"
    /\ ui = <<>> /\ calls = <<>>
    /\ response = [net |-> "raise", status |-> 0, body |-> Unparseable]
    /\ ticker = NotRun

SaveToExcel ==
    /\ report = ReportNotRun
    /\ report' = save_to_excel(<<"A">>, <<"AAPL">>, data, fault)
    /\ UNCHANGED <<company_input, companies, idx, pc, ui, calls, response, ticker, data, fault>>

NextExcel == SaveToExcel

SpecExcel == InitExcel /\ [][NextExcel]_vars

-----------------------------------------------------------------------------
(* Step 4: run_public_diligence and the button handler.                    *)

\* One stage call as the history keeps it: the function, its argument, the
\* behaviour of the outside world it met, and what it handed back.
Call(fn, arg, env, out) == [fn |-> fn, arg |-> arg, env |-> env, out |-> out]

\* return None, None
NoneNone == [some |-> FALSE, excel_buffer |-> <<>>, filename |-> None]

\* Mutant: the guard of line 104 is missing.
run_public_diligence_no_ticker_guard(company_name, resp, prov, flt) ==
    LET t == find_ticker(company_name, resp)
        c1 == <<Call("find_ticker", company_name, resp, t.ret)>>
        d == get_yfinance_data(t.ret, prov)
        c2 == c1 \o <<Call("get_yfinance_data", t.ret, prov, d.ret)>>
        st2 == t.st \o <<Msg("info", company_name)>> \o d.st
    IN  IF DOMAIN d.ret = {}
        THEN [ret |-> NoneNone, raised |-> FALSE, calls |-> c2,
              st |-> st2 \o <<Msg("warning", company_name)>>]
        ELSE LET b == save_to_excel(company_name, t.ret, d.ret, flt)
             IN  [ret |-> IF b.raised THEN NoneNone
                          ELSE [some |-> TRUE, excel_buffer |-> b.ret.workbook,
                                filename |-> b.ret.filename],
                  raised |-> b.raised,
                  calls |-> c2 \o <<Call("save_to_excel", d.ret, flt, b.ret)>>,
                  st |-> st2 \o b.st]

\* run_public_diligence(company_name) when the search answers resp, the
\* provider behaves as prov and the workbook write named flt raises.  The
\* result is [ret, raised, calls, st]: the returned pair, whether an
\* exception left the function (nothing in it catches one), the stage calls
\* it made in order, and the st.* calls made on the way.
run_public_diligence(company_name, resp, prov, flt) ==
    LET t == find_ticker(company_name, resp)
        c1 == <<Call("find_ticker", company_name, resp, t.ret)>>
    IN  IF ~Truthy(t.ret)
        THEN [ret |-> NoneNone, raised |-> FALSE, calls |-> c1,
              st |-> t.st \o <<Msg("warning", company_name)>>]
        ELSE LET d == get_yfinance_data(t.ret, prov)
                 c2 == c1 \o <<Call("get_yfinance_data", t.ret, prov, d.ret)>>
                 st2 == t.st \o <<Msg("info", company_name)>> \o d.st
             IN  IF DOMAIN d.ret = {}
                 THEN [ret |-> NoneNone, raised |-> FALSE, calls |-> c2,
                       st |-> st2 \o <<Msg("warning", company_name)>>]
                 ELSE LET b == save_to_excel(company_name, t.ret, d.ret, flt)
                      IN  [ret |-> IF b.raised THEN NoneNone
                                   ELSE [some |-> TRUE, excel_buffer |-> b.ret.workbook,
                                         filename |-> b.ret.filename],
                           raised |-> b.raised,
                           calls |-> c2 \o <<Call("save_to_excel", d.ret, flt, b.ret)>>,
                           st |-> st2 \o b.st]

\* str.split(','): the pieces of text between commas, from position i on,
\* cur being the piece under construction.
RECURSIVE SplitFrom(_, _, _)
SplitFrom(text, i, cur) ==
    IF i > Len(text) THEN <<cur>>
    ELSE IF text[i] = "," THEN <<cur>> \o SplitFrom(text, i + 1, <<>>)
         ELSE SplitFrom(text, i + 1, Append(cur, text[i]))

split(text) == SplitFrom(text, 1, <<>>)

RECURSIVE lstrip(_)
lstrip(name) == IF Len(name) > 0 /\ name[1] = " " THEN lstrip(Tail(name)) ELSE name

RECURSIVE rstrip(_)
rstrip(name) ==
    IF Len(name) > 0 /\ name[Len(name)] = " "
    THEN rstrip(SubSeq(name, 1, Len(name) - 1))
    ELSE name

\* str.strip()
strip(name) == rstrip(lstrip(name))

NonBlank(name) == strip(name) # <<>>

\* Line 124.
ParseCompanies(text) ==
    LET kept == SelectSeq(split(text), NonBlank)
    IN  [i \in 1..Len(kept) |-> strip(kept[i])]

\* The elements emitted during the loop pass for the at-th company.
Tag(seq, at) == [i \in 1..Len(seq) |-> [iter |-> at, e |-> seq[i]]]

Alphabet == {",", " ", "A"}

RECURSIVE Texts(_)
Texts(n) ==
    IF n = 0 THEN { <<>> }
    ELSE Texts(n - 1)
         \cup { Append(t, c) : t \in { u \in Texts(n - 1) : Len(u) = n - 1 }, c \in Alphabet }

\* The search outcomes, provider behaviours and write failures a company
\* can meet during a batch.
BatchResponses ==
    { [net |-> "raise", status |-> 0, body |-> Unparseable],
      [net |-> "ok", status |-> 200, body |-> Unparseable],
      [net |-> "ok", status |-> 200, body |-> Parsed(EmptyDict)],
      [net |-> "ok", status |-> 200,
       body |-> Parsed([k \in {"quotes"} |-> <<[quoteType |-> <<"ETF">>, symbol |-> <<"MSFT">>]>>])],
      [net |-> "ok", status |-> 200,
       body |-> Parsed([k \in {"quotes"} |->
                  <<[k2 \in {"quoteType"} |-> <<"EQUITY">>],
                    [quoteType |-> <<"EQUITY">>, symbol |-> <<"MSFT">>]>>])],
      [net |-> "ok", status |-> 200,
       body |-> Parsed([k \in {"quotes"} |->
                  <<[quoteType |-> <<"ETF">>, symbol |-> <<"MSFT">>],
                    [quoteType |-> <<"EQUITY">>, symbol |-> <<"AAPL">>]>>])] }

BatchProviders ==
    { [Provider(info, 1, SampleTable, {}) EXCEPT !.raiseAt = at] :
        info \in { <<>>, << <<"financialCurrency", Str(<<"USD">>)>> >> },
        at \in 0..Len(FetchSteps) }

BatchFaults == {"none", "Overview", "close"}

Init ==
    /\ company_input \in Texts(MaxText)
    /\ companies = <<>> /\ idx = 1 /\ pc = "idle"
    /\ ui = <<>> /\ calls = <<>>
    /\ response = [net |-> "raise", status |-> 0, body |-> Unparseable]
    /\ ticker = NotRun
    /\ data = EmptyDict /\ fault = "none" /\ report = ReportNotRun

\* Lines 123-125: the button is pressed; the script starts the loop (or is
\* through at once when no name is left).
Press ==
    /\ pc = "idle"
    /\ companies' = ParseCompanies(company_input)
    /\ idx' = 1
    /\ ui' = <<[iter |-> 0, e |-> Msg("write", <<>>)]>>
    /\ pc' = IF Len(companies') = 0 THEN "done" ELSE "loop"
    /\ UNCHANGED <<company_input, calls, response, ticker, data, fault, report>>

\* Lines 127-138: one pass of the loop.  An exception leaving
\* run_public_diligence is caught nowhere in the script, so it ends the
\* script run.
Iterate ==
    /\ pc = "loop"
    /\ idx <= Len(companies)
    /\ \E resp \in BatchResponses, prov \in BatchProviders, flt \in BatchFaults :
         LET company == companies[idx]
             r == run_public_diligence(company, resp, prov, flt)
             shown == IF ~r.raised /\ r.ret.some
                      THEN <<Msg("success", company), Msg("download_button", r.ret.filename)>>
                      ELSE <<>>
         IN  /\ ui' = ui \o Tag(r.st \o shown, idx)
             /\ calls' = calls \o Tag(r.calls, idx)
             /\ idx' = IF r.raised THEN idx ELSE idx + 1
             /\ pc' = IF r.raised THEN "crashed"
                      ELSE IF idx = Len(companies) THEN "done" ELSE "loop"
    /\ UNCHANGED <<company_input, companies, response, ticker, data, fault, report>>

\* Any later interaction that leaves the text alone (a click on a download
\* button, say) reruns the script with the run button unpressed: nothing
\* of the previous run stays on the page.
Rerun ==
    /\ pc \in {"done", "crashed"}
    /\ companies' = <<>> /\ idx' = 1 /\ pc' = "idle"
    /\ ui' = <<>> /\ calls' = <<>>
    /\ UNCHANGED <<company_input, response, ticker, data, fault, report>>

Next == Press \/ Iterate \/ Rerun

Spec == Init /\ [][Next]_vars

-----------------------------------------------------------------------------
(* Properties of find_ticker (SpecTicker).                                 *)

TickerRan == ticker # NotRun

\* The quotes array find_ticker iterates over, when it gets that far.
SearchQuotes ==
    IF response.net = "ok" /\ response.body.parseable /\ "quotes" \in DOMAIN response.body.json
    THEN response.body.json["quotes"]
    ELSE <<>>

IsEquity(entry) == "quoteType" \in DOMAIN entry /\ entry["quoteType"] = <<"EQUITY">>

\* C4: find_ticker returns the symbol of the first entry, in list order,
\* whose quoteType is "EQUITY" -- None when that entry carries no symbol,
\* whatever the entries after it hold.
C4_FirstEquityWins ==
    (TickerRan /\ response.net = "ok" /\ response.body.parseable) =>
        \A i \in 1..Len(SearchQuotes) :
            (IsEquity(SearchQuotes[i]) /\ \A j \in 1..(i - 1) : ~IsEquity(SearchQuotes[j]))
                => ticker.ret = (IF "symbol" \in DOMAIN SearchQuotes[i]
                                 THEN SearchQuotes[i]["symbol"] ELSE None)

\* A non-EQUITY entry first, then an EQUITY entry without a symbol, then an
\* EQUITY entry with one: None was returned.
C4_Witness ==
    /\ TickerRan
    /\ Len(SearchQuotes) = 3
    /\ ~IsEquity(SearchQuotes[1]) /\ "symbol" \in DOMAIN SearchQuotes[1]
    /\ IsEquity(SearchQuotes[2]) /\ "symbol" \notin DOMAIN SearchQuotes[2]
    /\ IsEquity(SearchQuotes[3]) /\ "symbol" \in DOMAIN SearchQuotes[3]
    /\ ticker.ret = None

\* C5: find_ticker never raises, and returns None in every failure case of
\* the search call: the request raised, the status is not 200, the body is
\* not parseable, or the result holds no EQUITY entry.
C5_FailureGivesNone ==
    TickerRan =>
        /\ ~ticker.raised
        /\ (\/ response.net = "raise"
            \/ response.status # 200
            \/ ~response.body.parseable
            \/ \A i \in 1..Len(SearchQuotes) : ~IsEquity(SearchQuotes[i]))
           => ticker.ret = None

-----------------------------------------------------------------------------
(* Properties of save_to_excel (SpecExcel).                                *)

Built == ~report.raised /\ report.ret.filename # Unset

HasSheet(name) == \E i \in 1..Len(report.ret.workbook) : report.ret.workbook[i].name = name

SheetNamed(name) ==
    report.ret.workbook[CHOOSE i \in 1..Len(report.ret.workbook) :
                            report.ret.workbook[i].name = name]

SheetCount(name) ==
    Cardinality({ i \in 1..Len(report.ret.workbook) : report.ret.workbook[i].name = name })

NonEmptyTable(df) == Len(df.index) > 0 /\ Len(df.columns) > 0

Blank == Str(<<>>)

\* C7: the workbook holds the sheet of a statement table, once, exactly
\* when that table has at least one line item and one period; a sheet that
\* is present carries the table's line items.
C7_SheetIffNonEmpty ==
    Built =>
        \A k \in 1..Len(StatementKeys) :
            /\ HasSheet(SheetNames[k]) <=> NonEmptyTable(data[StatementKeys[k]])
            /\ SheetCount(SheetNames[k]) <= 1
            /\ HasSheet(SheetNames[k]) =>
                   Len(SheetNamed(SheetNames[k]).rows) > Len(data[StatementKeys[k]].index)

\* A table with line items but no period is left out while its neighbour's
\* sheet is written, and a non-empty table is written next to an empty one.
C7_Witness ==
    /\ Built
    /\ Len(data["financials"].index) > 0 /\ Len(data["financials"].columns) = 0
    /\ ~HasSheet("Annual_Income")
    /\ HasSheet("Annual_Balance")
    /\ ~HasSheet("Annual_Cashflow")
    /\ HasSheet("Quarterly_Cashflow")

\* C8: the Overview sheet is written only for a non-empty profile, and then
\* has one row per attribute in insertion order.
C8_OverviewOnlyIfProfile ==
    (Built /\ HasSheet("Overview")) =>
        /\ Len(data["info"]) > 0
        /\ Len(SheetNamed("Overview").rows) = Len(data["info"])
        /\ \A r \in 1..Len(data["info"]) :
               SheetNamed("Overview").rows[r] = <<Str(<<data["info"][r][1]>>), data["info"][r][2]>>

\* C9: in every statement sheet the cell under line item r and period c is
\* the raw value over 1,000,000 when the raw value is a number (or text
\* spelling one), and blank when it is missing or is other text; and no
\* table content makes the build raise.
C9_CellsInMillions ==
    /\ (report # ReportNotRun /\ fault = "none") => ~report.raised
    /\ Built =>
        \A k \in 1..Len(StatementKeys) :
            LET df == data[StatementKeys[k]]
            IN  NonEmptyTable(df) =>
                  /\ HasSheet(SheetNames[k])
                  /\ \A r \in 1..Len(df.index), c \in 1..Len(df.columns) :
                        LET raw == df.values[r][c]
                            w == SheetNamed(SheetNames[k]).rows[r + 1][c + 1]
                        IN  /\ raw.t = "num" =>
                                (w.t = "num" /\ w.d > 0 /\ w.n * 1000000 = raw.n * w.d)
                            /\ raw = Str(<<"-", "4", "2">>) =>
                                (w.t = "num" /\ w.d > 0 /\ w.n * 1000000 = (-42) * w.d)
                            /\ (raw.t = "nan" \/ raw = Str(<<"N/A">>)) => w = Blank

\* A sheet with an "N/A" cell written blank beside 2,500,000 written as 5/2.
C9_Witness ==
    /\ Built
    /\ NonEmptyTable(data["cashflow"])
    /\ Len(data["cashflow"].columns) = 2
    /\ data["cashflow"].values[1][1] = Num(2500000)
    /\ data["cashflow"].values[1][2] = Str(<<"N/A">>)
    /\ SheetNamed("Annual_Cashflow").rows[2][2] = [t |-> "num", n |-> 5, d |-> 2, s |-> <<>>]
    /\ SheetNamed("Annual_Cashflow").rows[2][3] = Blank

\* The currency text the note must show: the profile's financialCurrency,
\* "Unknown" when the profile has none.
ExpectedCurrency ==
    IF \E i \in 1..Len(data["info"]) : data["info"][i][1] = "financialCurrency"
    THEN data["info"][CHOOSE i \in 1..Len(data["info"]) :
                          data["info"][i][1] = "financialCurrency"][2].s
    ELSE <<"Unknown">>

\* C10: the sheet of a table with R line items and C periods has C+1
\* columns and R+1 rows; the first row is the currency note followed by C
\* blanks, and the R rows after it start with the line-item labels in the
\* table's order.
C10_SheetLayout ==
    Built =>
        \A k \in 1..Len(StatementKeys) :
            LET df == data[StatementKeys[k]]
                R == Len(df.index)
                C == Len(df.columns)
            IN  NonEmptyTable(df) =>
                  LET sh == SheetNamed(SheetNames[k])
                  IN  /\ HasSheet(SheetNames[k])
                      /\ Len(sh.header) = C + 1
                      /\ Len(sh.rows) = R + 1
                      /\ \A r \in 1..(R + 1) : Len(sh.rows[r]) = C + 1
                      /\ sh.rows[1][1] =
                            Str(<<"Currency: ">> \o ExpectedCurrency \o <<" (in millions)">>)
                      /\ \A c \in 2..(C + 1) : sh.rows[1][c] = Blank
                      /\ \A r \in 1..R : sh.rows[r + 1][1] = df.index[r]

\* A 2 x 2 table written for a profile without financialCurrency.
C10_Witness ==
    /\ Built
    /\ Len(data["info"]) > 0
    /\ ExpectedCurrency = <<"Unknown">>
    /\ Len(data["quarterly_financials"].index) = 2
    /\ Len(data["quarterly_financials"].columns) = 2
    /\ HasSheet("Quarterly_Income")
    /\ SheetNamed("Quarterly_Income").rows[1][1] =
          Str(<<"Currency: ", "Unknown", " (in millions)">>)
    /\ Len(SheetNamed("Quarterly_Income").rows) = 3

-----------------------------------------------------------------------------
(* Properties of the batch (Spec).                                         *)

\* The script run is over: the loop ran out, or an exception ended it.
RunOver == pc \in {"done", "crashed"}

\* The loop pass for the k-th company is over.
Ended(k) == k < idx \/ (k = idx /\ pc = "crashed")

Called(k, fn) == \E i \in 1..Len(calls) : calls[i].iter = k /\ calls[i].e.fn = fn

Shown(k, fns) == \E i \in 1..Len(ui) : ui[i].iter = k /\ ui[i].e.fn \in fns

HasReport(k) == Shown(k, {"download_button"})

HasNotice(k) == Shown(k, {"warning", "error"})

\* C1: when the script run is over, every one of the N companies has been
\* processed and has an outcome, a report or a notice -- whatever happened
\* to the companies before it, a failing build included.
C1_BatchTotal ==
    RunOver =>
        \A k \in 1..Len(companies) :
            /\ Called(k, "find_ticker")
            /\ HasReport(k) \/ HasNotice(k)

\* C2: every company whose pass ended without a report has had a warning
\* or an error shown for it, whichever stage failed.
C2_EveryFailureNoticed ==
    \A k \in 1..Len(companies) :
        (Ended(k) /\ ~HasReport(k)) => HasNotice(k)

NoEquity(resp) ==
    /\ resp.net = "ok"
    /\ resp.body.parseable
    /\ ("quotes" \in DOMAIN resp.body.json =>
           \A i \in 1..Len(resp.body.json["quotes"]) : ~IsEquity(resp.body.json["quotes"][i]))

\* C3: a fetch is made only right after find_ticker returned a ticker for
\* the same company, and with that ticker; a build only right after the
\* fetch returned a non-empty record, and with that record; and a search
\* response without EQUITY entry gives None, no fetch and no build.
C3_StageGating ==
    \A i \in 1..Len(calls) :
        /\ calls[i].e.fn = "get_yfinance_data" =>
              /\ i > 1
              /\ calls[i - 1].iter = calls[i].iter
              /\ calls[i - 1].e.fn = "find_ticker"
              /\ calls[i - 1].e.out # None /\ calls[i - 1].e.out # <<>>
              /\ calls[i].e.arg = calls[i - 1].e.out
        /\ calls[i].e.fn = "save_to_excel" =>
              /\ i > 1
              /\ calls[i - 1].iter = calls[i].iter
              /\ calls[i - 1].e.fn = "get_yfinance_data"
              /\ DOMAIN calls[i - 1].e.out # {}
              /\ calls[i].e.arg = calls[i - 1].e.out
        /\ (calls[i].e.fn = "find_ticker" /\ NoEquity(calls[i].e.env)) =>
              /\ calls[i].e.out = None
              /\ ~Called(calls[i].iter, "get_yfinance_data")
              /\ ~Called(calls[i].iter, "save_to_excel")

\* A first company whose search has no EQUITY entry and stops after
\* find_ticker, and a second that goes through all three stages.
C3_Witness ==
    /\ Len(calls) = 4
    /\ calls[1].iter = 1 /\ calls[1].e.fn = "find_ticker" /\ NoEquity(calls[1].e.env)
    /\ "quotes" \in DOMAIN calls[1].e.env.body.json
    /\ calls[2].iter = 2 /\ calls[2].e.fn = "find_ticker"
    /\ calls[3].iter = 2 /\ calls[3].e.fn = "get_yfinance_data"
    /\ calls[4].iter = 2 /\ calls[4].e.fn = "save_to_excel"
    /\ HasReport(2) /\ ~HasReport(1)

EightKeys == {"info", "financials", "balance_sheet", "cashflow", "quarterly_financials",
              "quarterly_balance_sheet", "quarterly_cashflow", "currency"}

\* C6: get_yfinance_data hands back either a record with all eight
\* components or the empty record -- the empty one whenever a step raised,
\* however many components had been retrieved -- and an empty record ends
\* the company's pass with a warning, without a build and without a report.
C6_FetchAtomic ==
    \A i \in 1..Len(calls) :
        /\ calls[i].e.fn = "get_yfinance_data" =>
              /\ DOMAIN calls[i].e.out = {} \/ DOMAIN calls[i].e.out = EightKeys
              /\ calls[i].e.env.raiseAt # 0 => DOMAIN calls[i].e.out = {}
              /\ calls[i].e.env.raiseAt = 0 => DOMAIN calls[i].e.out = EightKeys
              /\ DOMAIN calls[i].e.out = {} =>
                    /\ ~Called(calls[i].iter, "save_to_excel")
                    /\ Shown(calls[i].iter, {"warning"})
                    /\ ~HasReport(calls[i].iter)
        /\ calls[i].e.fn = "save_to_excel" => DOMAIN calls[i].e.arg = EightKeys

\* The fifth step raised, after info and three tables had been retrieved:
\* the empty record came back and the pass ended with a warning.
C6_Witness ==
    \E i \in 1..Len(calls) :
        /\ calls[i].e.fn = "get_yfinance_data"
        /\ calls[i].e.env.raiseAt = 5
        /\ DOMAIN calls[i].e.out = {}
        /\ Shown(calls[i].iter, {"warning"})
        /\ ~Called(calls[i].iter, "save_to_excel")

====
